---- MODULE Spec2Model ----
(***************************************************************************)
(* Model of assignment1.py: a command line tool that counts the weekend    *)
(* days between two dates.  Date strings are sequences of one-character    *)
(* strings, so that parsing (str.split, int) and formatting (f-strings)    *)
(* are computed as the program computes them.  A Python exception is a     *)
(* result record whose exc field names the exception class.                *)
(***************************************************************************)
EXTENDS Integers, Sequences, FiniteSets, TLC

VARIABLES argv, pc, start_date, end_date, date, count, weekend_days, out,
          steps, prev, inp, arg, op, res

vars == <<argv, pc, start_date, end_date, date, count, weekend_days, out,
          steps, prev, inp, arg, op, res>>

mainVars == <<argv, pc, start_date, end_date, date, count, weekend_days, out,
              steps, prev>>

fnVars == <<inp, arg, op, res>>

(***************************************************************************)
(* Bounds                                                                  *)
(***************************************************************************)
MaxSteps == 8
MaxArgs == 3
MaxMonth == 13
MaxDay == 32

(***************************************************************************)
(* Characters, str(int) and int(str)                                       *)
(***************************************************************************)
Digits == <<"0", "1", "2", "3", "4", "5", "6", "7", "8", "9">>

IsDigit(c) == \E i \in 1..10 : Digits[i] = c

DigitVal(c) == (CHOOSE i \in 1..10 : Digits[i] = c) - 1

RECURSIVE StrNat(_)
StrNat(n) ==
    IF n < 10 THEN <<Digits[n + 1]>>
    ELSE StrNat(n \div 10) \o <<Digits[(n % 10) + 1]>>

\* str(n) as the f-string renders {year}
Str(n) == IF n < 0 THEN <<"-">> \o StrNat(-n) ELSE StrNat(n)

\* the f-string field {n:02}
Fmt02(n) == IF Len(Str(n)) < 2 THEN <<"0">> \o Str(n) ELSE Str(n)

RECURSIVE NatVal(_)
NatVal(s) ==
    IF s = <<>> THEN 0
    ELSE NatVal(SubSeq(s, 1, Len(s) - 1)) * 10 + DigitVal(s[Len(s)])

\* int(x) succeeds on an optional sign followed by at least one digit
IsInt(f) ==
    LET body == IF f # <<>> /\ Head(f) = "-" THEN Tail(f) ELSE f
    IN  body # <<>> /\ \A i \in 1..Len(body) : IsDigit(body[i])

IntVal(f) ==
    IF Head(f) = "-" THEN 0 - NatVal(Tail(f)) ELSE NatVal(f)

Contains(s, ch) == \E i \in 1..Len(s) : s[i] = ch

\* str.split(ch): always at least one field, empty fields kept
RECURSIVE Split(_, _)
Split(s, ch) ==
    IF s = <<>> THEN << <<>> >>
    ELSE LET rest == Split(Tail(s), ch)
         IN  IF Head(s) = ch THEN << <<>> >> \o rest
             ELSE << <<Head(s)>> \o Head(rest) >> \o Tail(rest)

(***************************************************************************)
(* The functions of assignment1.py                                         *)
(***************************************************************************)
ParseError == [exc |-> "ValueError", day |-> 0, month |-> 0, year |-> 0]

Fields3(f, a, b, c) ==
    IF Len(f) # 3 \/ \E i \in 1..Len(f) : ~IsInt(f[i]) THEN ParseError
    ELSE [exc |-> "", day |-> IntVal(f[a]), month |-> IntVal(f[b]),
          year |-> IntVal(f[c])]

parse_date(s) ==
    IF Contains(s, "/") THEN Fields3(Split(s, "/"), 1, 2, 3)
    ELSE IF Contains(s, "-") THEN Fields3(Split(s, "-"), 3, 2, 1)
    ELSE ParseError

\* leap_year without the century rule
leap_year_div4(year) == year % 4 = 0

leap_year(year) == year % 4 = 0 /\ (year % 100 # 0 \/ year % 400 = 0)

mon_max(month, year) ==
    IF month = 2 THEN (IF leap_year(year) THEN 29 ELSE 28)
    ELSE IF month \in {4, 6, 9, 11} THEN 30
    ELSE 31

valid_date(s) ==
    LET p == parse_date(s)
    IN  IF p.exc = "ValueError" THEN [exc |-> "", val |-> FALSE]
        ELSE IF p.exc # "" THEN [exc |-> p.exc, val |-> FALSE]
        ELSE IF p.month < 1 \/ p.month > 12 THEN [exc |-> "", val |-> FALSE]
        ELSE IF p.day < 1 \/ p.day > mon_max(p.month, p.year)
             THEN [exc |-> "", val |-> FALSE]
        ELSE [exc |-> "", val |-> TRUE]

days == <<"Sun", "Mon", "Tue", "Wed", "Thu", "Fri", "Sat">>

offset == <<0, 3, 2, 5, 0, 3, 5, 1, 4, 6, 2, 4>>

day_of_week(s) ==
    LET p == parse_date(s)
    IN  IF p.exc # "" THEN [exc |-> p.exc, val |-> ""]
        ELSE IF p.month \notin 1..12 THEN [exc |-> "KeyError", val |-> ""]
        ELSE LET year == IF p.month < 3 THEN p.year - 1 ELSE p.year
                 num == (year + (year \div 4) - (year \div 100)
                         + (year \div 400) + offset[p.month] + p.day) % 7
             IN  [exc |-> "", val |-> days[num + 1]]

\* f"{year}-{month:02}-{day:02}"
Format(year, month, day) ==
    Str(year) \o <<"-">> \o Fmt02(month) \o <<"-">> \o Fmt02(day)

after(s) ==
    LET p == parse_date(s)
    IN  IF p.exc # "" THEN [exc |-> p.exc, val |-> <<>>]
        ELSE LET day == p.day + 1
                 roll == day > mon_max(p.month, p.year)
                 wrap == roll /\ p.month + 1 > 12
             IN  [exc |-> "",
                  val |-> Format(IF wrap THEN p.year + 1 ELSE p.year,
                                 IF wrap THEN 1
                                 ELSE IF roll THEN p.month + 1 ELSE p.month,
                                 IF roll THEN 1 ELSE day)]

before(s) ==
    LET p == parse_date(s)
    IN  IF p.exc # "" THEN [exc |-> p.exc, val |-> <<>>]
        ELSE LET day == p.day - 1
                 roll == day < 1
                 wrap == roll /\ p.month - 1 < 1
                 month == IF wrap THEN 12
                          ELSE IF roll THEN p.month - 1 ELSE p.month
                 year == IF wrap THEN p.year - 1 ELSE p.year
             IN  [exc |-> "",
                  val |-> Format(year, month,
                                 IF roll THEN mon_max(month, year) ELSE day)]

\* datetime.MINYEAR and datetime.MAXYEAR
MINYEAR == 1
MAXYEAR == 9999

\* datetime(year, month, day): ValueError outside the supported range
datetime(year, month, day) ==
    IF year < MINYEAR \/ year > MAXYEAR \/ month < 1 \/ month > 12
       \/ day < 1 \/ day > mon_max(month, year)
    THEN [exc |-> "ValueError", key |-> <<0, 0, 0>>]
    ELSE [exc |-> "", key |-> <<year, month, day>>]

TupleLess(a, b) ==
    \/ a[1] < b[1]
    \/ a[1] = b[1] /\ a[2] < b[2]
    \/ a[1] = b[1] /\ a[2] = b[2] /\ a[3] < b[3]

\* date_compare ordering the fields as (day, month, year)
date_compare_dmy(s, e) ==
    LET ps == parse_date(s)
        pe == parse_date(e)
    IN  IF ps.exc # "" THEN [exc |-> ps.exc, val |-> FALSE]
        ELSE IF pe.exc # "" THEN [exc |-> pe.exc, val |-> FALSE]
        ELSE LET so == datetime(ps.year, ps.month, ps.day)
                 eo == datetime(pe.year, pe.month, pe.day)
             IN  IF so.exc # "" THEN [exc |-> so.exc, val |-> FALSE]
                 ELSE IF eo.exc # "" THEN [exc |-> eo.exc, val |-> FALSE]
                 ELSE [exc |-> "",
                       val |-> TupleLess(<<ps.day, ps.month, ps.year>>,
                                         <<pe.day, pe.month, pe.year>>)]

date_compare(s, e) ==
    LET ps == parse_date(s)
        pe == parse_date(e)
    IN  IF ps.exc # "" THEN [exc |-> ps.exc, val |-> FALSE]
        ELSE IF pe.exc # "" THEN [exc |-> pe.exc, val |-> FALSE]
        ELSE LET so == datetime(ps.year, ps.month, ps.day)
                 eo == datetime(pe.year, pe.month, pe.day)
             IN  IF so.exc # "" THEN [exc |-> so.exc, val |-> FALSE]
                 ELSE IF eo.exc # "" THEN [exc |-> eo.exc, val |-> FALSE]
                 ELSE [exc |-> "", val |-> TupleLess(so.key, eo.key)]

(***************************************************************************)
(* Command line arguments.  An input is described by the fields it was     *)
(* written from (inp) and turned into text by Text; raw inputs are given   *)
(* as text.                                                                *)
(***************************************************************************)
Pad4(n) ==
    IF n < 0 THEN Str(n)
    ELSE IF n < 10 THEN <<"0", "0", "0">> \o Str(n)
    ELSE IF n < 100 THEN <<"0", "0">> \o Str(n)
    ELSE IF n < 1000 THEN <<"0">> \o Str(n)
    ELSE Str(n)

Text(i) ==
    LET D == IF i.pad THEN Fmt02(i.d) ELSE Str(i.d)
        M == IF i.pad THEN Fmt02(i.m) ELSE Str(i.m)
        Y == IF i.pad THEN Pad4(i.y) ELSE Str(i.y)
    IN  IF i.kind = "slash" THEN D \o <<"/">> \o M \o <<"/">> \o Y
        ELSE IF i.kind = "dash" THEN Y \o <<"-">> \o M \o <<"-">> \o D
        ELSE i.raw

RawTexts ==
    { <<>>,
      <<"n", "o", "t", "-", "a", "-", "d", "a", "t", "e">>,
      <<"2", "0", "2", "4", "0", "1", "0", "5">>,
      <<"1", "/", "2", "/", "3", "/", "4">>,
      <<"2", "0", "2", "4", "-", "0", "1">>,
      <<"-", "5", "-", "0", "1", "-", "0", "1">>,
      <<"x", "/", "0", "1", "/", "2", "0", "2", "4">> }

RawInputs ==
    { [kind |-> "raw", y |-> 0, m |-> 0, d |-> 0, pad |-> FALSE, raw |-> t]
      : t \in RawTexts }

\* a '-' delimited text cannot carry a negative field
DateInputs(dates) ==
    { i \in [kind : {"slash", "dash"}, y : {t[1] : t \in dates},
             m : {t[2] : t \in dates}, d : {t[3] : t \in dates},
             pad : BOOLEAN, raw : {<<>>}]
      : <<i.y, i.m, i.d>> \in dates /\ (i.kind = "dash" => i.y >= 0) }

MainDates ==
    { <<2023, 12, 30>>, <<2023, 12, 31>>, <<2024, 1, 1>>, <<2024, 1, 5>>,
      <<2024, 2, 28>>, <<2024, 2, 29>>, <<2024, 3, 1>>,
      <<5, 1, 1>>, <<5, 1, 2>>,
      <<0, 1, 1>>, <<-5, 1, 1>>, <<9999, 12, 31>>, <<10000, 1, 1>>,
      <<2023, 2, 29>>, <<2024, 4, 31>>, <<2024, 13, 13>>, <<2024, 1, 0>> }

MainTexts == {Text(i) : i \in DateInputs(MainDates) \cup RawInputs}

\* arguments used when the argument count is not two
FewTexts ==
    { <<"3", "1", "/", "1", "2", "/", "2", "0", "2", "3">>,
      <<"2", "0", "2", "4", "-", "0", "1", "-", "0", "5">>,
      <<"n", "o", "t", "-", "a", "-", "d", "a", "t", "e">> }

ArgLists ==
    UNION { IF n = 2 THEN [1..2 -> MainTexts] ELSE [1..n -> FewTexts]
            : n \in 0..MaxArgs }

(***************************************************************************)
(* The program: the __main__ block and day_count                           *)
(***************************************************************************)
NoOut == [kind |-> "none", start |-> <<>>, end |-> <<>>, n |-> 0]

UsageOut == [kind |-> "usage", start |-> <<>>, end |-> <<>>, n |-> 0]

TracebackOut == [kind |-> "traceback", start |-> <<>>, end |-> <<>>, n |-> 0]

NoInp == [kind |-> "raw", y |-> 0, m |-> 0, d |-> 0, pad |-> FALSE,
          raw |-> <<>>]

NoRes == [exc |-> "", val |-> FALSE]

Init ==
    /\ argv \in ArgLists
    /\ pc = "main"
    /\ start_date = <<>>
    /\ end_date = <<>>
    /\ date = <<>>
    /\ count = 0
    /\ weekend_days = 0
    /\ out = NoOut
    /\ steps = 0
    /\ prev = NoOut
    /\ inp = NoInp
    /\ arg = <<>>
    /\ op = "none"
    /\ res = NoRes

\* usage(): prints the usage text and calls sys.exit()
usage ==
    /\ out' = UsageOut
    /\ pc' = "exit"

\* if len(sys.argv) != 3: usage(); then the two arguments are read
CheckArgs ==
    /\ pc = "main"
    /\ IF Len(argv) # 2
       THEN usage /\ UNCHANGED <<start_date, end_date>>
       ELSE /\ start_date' = argv[1]
            /\ end_date' = argv[2]
            /\ pc' = "validate"
            /\ UNCHANGED out
    /\ UNCHANGED <<argv, date, count, weekend_days, steps, prev>>
    /\ UNCHANGED fnVars

\* Validate with `and` in place of `or`
Validate_and ==
    /\ pc = "validate"
    /\ LET vs == valid_date(start_date)
           ve == valid_date(end_date)
       IN  IF vs.exc # "" \/ (~vs.val /\ ve.exc # "")
           THEN out' = TracebackOut /\ pc' = "exit"
           ELSE IF ~vs.val /\ ~ve.val
           THEN usage
           ELSE pc' = "order" /\ UNCHANGED out
    /\ UNCHANGED <<argv, start_date, end_date, date, count, weekend_days,
                   steps, prev>>
    /\ UNCHANGED fnVars

\* if not valid_date(start_date) or not valid_date(end_date): usage()
Validate ==
    /\ pc = "validate"
    /\ LET vs == valid_date(start_date)
           ve == valid_date(end_date)
       IN  IF vs.exc # "" \/ (vs.val /\ ve.exc # "")
           THEN out' = TracebackOut /\ pc' = "exit"
           ELSE IF ~vs.val \/ ~ve.val
           THEN usage
           ELSE pc' = "order" /\ UNCHANGED out
    /\ UNCHANGED <<argv, start_date, end_date, date, count, weekend_days,
                   steps, prev>>
    /\ UNCHANGED fnVars

\* if not date_compare(start_date, end_date): swap
Order ==
    /\ pc = "order"
    /\ LET c == date_compare(start_date, end_date)
       IN  IF c.exc # ""
           THEN /\ out' = TracebackOut
                /\ pc' = "exit"
                /\ UNCHANGED <<start_date, end_date>>
           ELSE /\ start_date' = IF c.val THEN start_date ELSE end_date
                /\ end_date' = IF c.val THEN end_date ELSE start_date
                /\ pc' = "day_count"
                /\ UNCHANGED out
    /\ UNCHANGED <<argv, date, count, weekend_days, steps, prev>>
    /\ UNCHANGED fnVars

\* day_count entry: count = 0; date = start_date
DayCountEntry ==
    /\ pc = "day_count"
    /\ count' = 0
    /\ date' = start_date
    /\ steps' = 0
    /\ pc' = "loop"
    /\ UNCHANGED <<argv, start_date, end_date, weekend_days, out, prev>>
    /\ UNCHANGED fnVars

\* one iteration of  while date != end_date
LoopBody ==
    /\ pc = "loop"
    /\ date # end_date
    /\ steps < MaxSteps
    /\ LET w == day_of_week(date)
           nx == after(date)
       IN  IF w.exc # "" \/ nx.exc # ""
           THEN /\ out' = TracebackOut
                /\ pc' = "exit"
                /\ UNCHANGED <<count, date, steps>>
           ELSE /\ count' = IF w.val \in {"Sat", "Sun"} THEN count + 1
                            ELSE count
                /\ date' = nx.val
                /\ steps' = steps + 1
                /\ UNCHANGED <<out, pc>>
    /\ UNCHANGED <<argv, start_date, end_date, weekend_days, prev>>
    /\ UNCHANGED fnVars

\* loop exit: the end date is counted and day_count returns
LoopExit ==
    /\ pc = "loop"
    /\ date = end_date
    /\ LET w == day_of_week(end_date)
       IN  IF w.exc # ""
           THEN /\ out' = TracebackOut
                /\ pc' = "exit"
                /\ UNCHANGED <<count, weekend_days>>
           ELSE /\ count' = IF w.val \in {"Sat", "Sun"} THEN count + 1
                            ELSE count
                /\ weekend_days' = count'
                /\ pc' = "print"
                /\ UNCHANGED out
    /\ UNCHANGED <<argv, start_date, end_date, date, steps, prev>>
    /\ UNCHANGED fnVars

\* print(f"The period between {start_date} and {end_date} includes ...")
PrintLine ==
    /\ pc = "print"
    /\ out' = [kind |-> "line", start |-> start_date, end |-> end_date,
               n |-> weekend_days]
    /\ pc' = "exit"
    /\ UNCHANGED <<argv, start_date, end_date, date, count, weekend_days,
                   steps, prev>>
    /\ UNCHANGED fnVars

\* the program is invoked a second time with the two arguments exchanged
Reinvoke ==
    /\ pc = "exit"
    /\ prev.kind = "none"
    /\ Len(argv) = 2
    /\ prev' = out
    /\ argv' = <<argv[2], argv[1]>>
    /\ pc' = "main"
    /\ start_date' = <<>>
    /\ end_date' = <<>>
    /\ date' = <<>>
    /\ count' = 0
    /\ weekend_days' = 0
    /\ out' = NoOut
    /\ steps' = 0
    /\ UNCHANGED fnVars

Next ==
    \/ CheckArgs
    \/ Validate
    \/ Order
    \/ DayCountEntry
    \/ LoopBody
    \/ LoopExit
    \/ PrintLine
    \/ Reinvoke

Spec == Init /\ [][Next]_vars

(***************************************************************************)
(* The functions applied to one date text                                  *)
(***************************************************************************)
FnYears == {-5, -1, 0, 1, 1900, 2000, 2023, 2024, 9999, 10000}

FnDates == {<<y, m, d>> : y \in FnYears, m \in 0..MaxMonth, d \in 0..MaxDay}

FnInputs == DateInputs(FnDates) \cup RawInputs

InitFn ==
    /\ inp \in FnInputs
    /\ arg = Text(inp)
    /\ op = "none"
    /\ res = NoRes
    /\ argv = <<>>
    /\ pc = "idle"
    /\ start_date = <<>>
    /\ end_date = <<>>
    /\ date = <<>>
    /\ count = 0
    /\ weekend_days = 0
    /\ out = NoOut
    /\ steps = 0
    /\ prev = NoOut

Call(name, r) ==
    /\ op = "none"
    /\ op' = name
    /\ res' = r
    /\ UNCHANGED <<inp, arg>>
    /\ UNCHANGED mainVars

CallValidDate == Call("valid_date", valid_date(arg))

CallDayOfWeek == Call("day_of_week", day_of_week(arg))

CallAfter == Call("after", after(arg))

CallBefore == Call("before", before(arg))

\* before(after(arg))
CallBeforeAfter ==
    Call("before_after",
         LET a == after(arg) IN IF a.exc # "" THEN a ELSE before(a.val))

\* after(before(arg))
CallAfterBefore ==
    Call("after_before",
         LET b == before(arg) IN IF b.exc # "" THEN b ELSE after(b.val))

\* day_of_week(after(arg))
CallDayOfWeekAfter ==
    Call("day_of_week_after",
         LET a == after(arg)
         IN  IF a.exc # "" THEN [exc |-> a.exc, val |-> ""]
             ELSE day_of_week(a.val))

NextFn ==
    \/ CallValidDate
    \/ CallDayOfWeek
    \/ CallAfter
    \/ CallBefore
    \/ CallBeforeAfter
    \/ CallAfterBefore
    \/ CallDayOfWeekAfter

SpecFn == InitFn /\ [][NextFn]_vars

(***************************************************************************)
(* Reference calendar: day numbers counted from 0001-01-01 = 1, which is   *)
(* a Monday in the proleptic Gregorian calendar.                           *)
(***************************************************************************)
RefLeap(y) == (y % 4 = 0 /\ y % 100 # 0) \/ y % 400 = 0

RefDaysIn(m, y) ==
    IF m = 2 /\ RefLeap(y) THEN 29
    ELSE <<31, 28, 31, 30, 31, 30, 31, 31, 30, 31, 30, 31>>[m]

RECURSIVE RefDaysBefore(_, _)
RefDaysBefore(m, y) ==
    IF m <= 1 THEN 0 ELSE RefDaysBefore(m - 1, y) + RefDaysIn(m - 1, y)

RefOrdinal(y, m, d) ==
    365 * (y - 1) + ((y - 1) \div 4) - ((y - 1) \div 100)
    + ((y - 1) \div 400) + RefDaysBefore(m, y) + d

RefWeekday(n) == days[(n % 7) + 1]

RefValid(i) ==
    /\ i.kind # "raw"
    /\ i.m \in 1..12
    /\ i.d >= 1
    /\ i.d <= RefDaysIn(i.m, i.y)

Key(s) == LET p == parse_date(s) IN <<p.year, p.month, p.day>>

Ord(s) == LET p == parse_date(s) IN RefOrdinal(p.year, p.month, p.day)

Parses(s) == parse_date(s).exc = ""

\* number of day numbers k <= n that fall on a Saturday or a Sunday, counted
\* from day number 1: two in every full week, and the Saturday of the
\* current week when n is one
RefWeekendsUpTo(n) == 2 * (n \div 7) + (IF n % 7 = 6 THEN 1 ELSE 0)

RefWeekendDays(s, e) == RefWeekendsUpTo(Ord(e)) - RefWeekendsUpTo(Ord(s) - 1)

SuccDay(w) ==
    LET i == CHOOSE k \in 1..7 : days[k] = w IN days[(i % 7) + 1]

(***************************************************************************)
(* Properties of the program (specification Spec)                          *)
(***************************************************************************)
InDayCount == pc \in {"loop", "print"}

\* C1: once the two valid dates are ordered, the walk of day_count reaches
\* end_date and returns after exactly as many steps of `after` as there are
\* days between the two dates; it never steps past end_date.
C1_WalkReachesEndDate ==
    /\ pc = "loop" => steps <= Ord(end_date) - Ord(start_date)
    /\ pc = "print" => steps = Ord(end_date) - Ord(start_date)

\* C2: day_count counts exactly the Saturdays and Sundays D with
\* start_date <= D <= end_date, each once: the counter never exceeds that
\* number and the returned value equals it.
C2_CountsWeekendDaysInRange ==
    /\ pc = "loop" => count <= RefWeekendDays(start_date, end_date)
    /\ pc = "print" => weekend_days = RefWeekendDays(start_date, end_date)

IsIsoText(s) ==
    /\ Parses(s)
    /\ LET p == parse_date(s)
       IN  s = Pad4(p.year) \o <<"-">> \o Fmt02(p.month) \o <<"-">>
               \o Fmt02(p.day)

\* C3: the printed line shows both dates as YYYY-MM-DD with two-digit month
\* and day, whatever the format of the arguments, the earlier date first.
C3_OutputIsIsoFormatted ==
    out.kind = "line" =>
        /\ IsIsoText(out.start)
        /\ IsIsoText(out.end)
        /\ ~TupleLess(Key(out.end), Key(out.start))

Malformed ==
    \/ Len(argv) # 2
    \/ ~valid_date(argv[1]).val
    \/ ~valid_date(argv[2]).val

\* C5: on a malformed invocation (argument count other than two, or an
\* argument rejected by valid_date) the program only prints the usage
\* message and exits: it never reaches date_compare or day_count, never
\* prints the weekend-count line, and the output is the same for every cause.
C5_MalformedPrintsUsage ==
    Malformed =>
        /\ pc \in {"main", "validate", "exit"}
        /\ out \in {NoOut, UsageOut}
        /\ pc = "exit" => out = UsageOut

C5_Witness ==
    /\ Len(argv) = 2
    /\ valid_date(argv[1]).val
    /\ ~valid_date(argv[2]).val
    /\ Parses(argv[2])
    /\ pc = "exit"
    /\ out = UsageOut

\* C9: date_compare gives a boolean for every pair of dates valid_date
\* accepts, true iff (year, month, day) of the first is less than that of
\* the second, and no failure reaches the command line layer.
C9_CompareNeverFails ==
    /\ out.kind # "traceback"
    /\ (pc = "day_count" /\ prev.kind = "none") =>
           <<start_date, end_date>> =
               IF TupleLess(Key(argv[1]), Key(argv[2]))
               THEN <<argv[1], argv[2]>> ELSE <<argv[2], argv[1]>>

(***************************************************************************)
(* Properties of the functions (specification SpecFn)                      *)
(***************************************************************************)
ArgValid == valid_date(arg).val

\* C6: valid_date never raises; it is false when the text does not parse
\* and otherwise true iff 1 <= month <= 12 and 1 <= day <= last day of the
\* month.
C6_ValidDateTotal ==
    op = "valid_date" => res.exc = "" /\ res.val = RefValid(inp)

C6_Witness ==
    /\ op = "valid_date"
    /\ res.val = TRUE
    /\ inp.kind = "dash"
    /\ inp.m = 2
    /\ inp.d = 29

SameDate(a, b) == Parses(a) /\ Parses(b) /\ Key(a) = Key(b)

\* C7: for every valid date D, before(after(D)) and after(before(D)) are D.
C7_RoundTrip ==
    (ArgValid /\ op \in {"before_after", "after_before"}) =>
        res.exc = "" /\ SameDate(res.val, arg)

\* C8: for every valid date D, day_of_week(D) is the Gregorian weekday
\* (2000-01-01 is Sat, 2024-01-01 is Mon) and day_of_week(after(D)) is the
\* cyclic successor of day_of_week(D).
C8_WeekdayCorrect ==
    /\ (ArgValid /\ op = "day_of_week") =>
           /\ res.exc = ""
           /\ res.val = RefWeekday(Ord(arg))
           /\ Key(arg) = <<2000, 1, 1>> => res.val = "Sat"
           /\ Key(arg) = <<2024, 1, 1>> => res.val = "Mon"
    /\ (ArgValid /\ op = "day_of_week_after") =>
           /\ res.exc = ""
           /\ res.val = SuccDay(day_of_week(arg).val)

\* C10: for every valid date D, after(D) and before(D) are valid dates, D is
\* strictly before after(D) and strictly after before(D), and they are the
\* immediate neighbours of D.
C10_StepPreservesValidity ==
    /\ (ArgValid /\ op = "after") =>
           /\ res.exc = ""
           /\ valid_date(res.val).val
           /\ TupleLess(Key(arg), Key(res.val))
           /\ Ord(res.val) = Ord(arg) + 1
    /\ (ArgValid /\ op = "before") =>
           /\ res.exc = ""
           /\ valid_date(res.val).val
           /\ TupleLess(Key(res.val), Key(arg))
           /\ Ord(res.val) = Ord(arg) - 1

====
